---- MODULE Spec2Model ----
(***************************************************************************)
(* Model of the winsock publish/subscribe layer of mt4-docker              *)
(* (src/dll_source/mt4zmq_winsock_fixed.cpp): the process-wide registry,   *)
(* the address parser, the publisher's accept-and-broadcast send, the      *)
(* subscriber's select-and-read receive, close and terminate, together     *)
(* with a small model of the TCP transport the code runs on.  The calls    *)
(* are made one after the other by a single caller (Spec, SpecAddr,        *)
(* SpecPeers) or step by step by two threads (SpecThreads).                *)
(*                                                                         *)
(* Text is modelled after WideToUtf8: a topic or payload is a sequence of  *)
(* non-zero bytes (a C string cannot hold NUL).  The caller's output       *)
(* buffers are taken to be large enough for what a read can return.        *)
(***************************************************************************)
EXTENDS Integers, Sequences, FiniteSets, TLC

(***************************************************************************)
(* Bounds of the model.                                                    *)
(***************************************************************************)
\* successful create calls explored (g_next_handle never exceeds MaxHandle + 1)
MaxHandle == 2
\* bytes the transport buffers on one connection before a write would block
StreamCap == 3
\* subscribers that connect to the one publisher of SpecPeers
MaxPeers == 3
\* WSAStartup calls not yet matched by a WSACleanup that SpecThreads explores
MaxStartups == 2

(***************************************************************************)
(* Program constants.                                                      *)
(***************************************************************************)
\* char buffer[4096] of zmq_recv_message
RecvBufSize == 4096
\* htons takes the low 16 bits of the parsed port
PortModulus == 65536
\* std::stoi throws out_of_range above INT_MAX
IntMax == 2147483647

\* the separator of a frame, '\0'
NUL == 0
\* the SOCKET value that is no socket
INVALID_SOCKET == 0

Min(a, b) == IF a < b THEN a ELSE b

(***************************************************************************)
(* ParseAddress (lines 79-103) on strings.                                 *)
(***************************************************************************)
Ch(s, i) == SubSeq(s, i, i)

\* std::string::substr(pos): the rest of s from 0-based position pos
SubstrFrom(s, pos) == SubSeq(s, pos + 1, Len(s))

\* std::string::substr(0, n): at most the first n characters
SubstrTo(s, n) == SubSeq(s, 1, Min(n, Len(s)))

\* std::string::find(c): 0-based position of the first c, or -1 (npos)
Find(s, c) ==
    LET hits == {i \in 1..Len(s) : Ch(s, i) = c}
    IN  IF hits = {} THEN -1
        ELSE (CHOOSE i \in hits : \A j \in hits : i <= j) - 1

Digits == {"0", "1", "2", "3", "4", "5", "6", "7", "8", "9"}

DigitVal(c) ==
    CASE c = "0" -> 0 [] c = "1" -> 1 [] c = "2" -> 2 [] c = "3" -> 3
      [] c = "4" -> 4 [] c = "5" -> 5 [] c = "6" -> 6 [] c = "7" -> 7
      [] c = "8" -> 8 [] c = "9" -> 9

\* the characters isspace accepts that a caller's address can hold
IsSpace(c) == c \in {" ", "\t", "\n", "\r"}

\* number of leading characters of s (from 1-based i) that satisfy isspace
RECURSIVE SkipSpace(_, _)
SkipSpace(s, i) ==
    IF i <= Len(s) /\ IsSpace(Ch(s, i)) THEN SkipSpace(s, i + 1) ELSE i

\* 1-based index just past the run of digits starting at i
RECURSIVE DigitsEnd(_, _)
DigitsEnd(s, i) ==
    IF i <= Len(s) /\ Ch(s, i) \in Digits THEN DigitsEnd(s, i + 1) ELSE i

\* strtol's accumulation of one more digit d onto the magnitude m, where
\* TooBig stands for every magnitude above IntMax + 1 and JustOver for
\* IntMax + 1 itself (the magnitude of INT_MIN)
TooBig == 0 - 2
JustOver == 0 - 1
Accumulate(m, d) ==
    IF m < 0 THEN TooBig
    ELSE IF m < IntMax \div 10 THEN 10 * m + d
    ELSE IF m > IntMax \div 10 THEN TooBig
    ELSE IF d <= IntMax % 10 THEN 10 * m + d
    ELSE IF d = (IntMax % 10) + 1 THEN JustOver
    ELSE TooBig

\* magnitude of the digits s[i..j-1], most significant first
RECURSIVE DigitsValue(_, _, _)
DigitsValue(s, i, j) ==
    IF j <= i THEN 0
    ELSE Accumulate(DigitsValue(s, i, j - 1), DigitVal(Ch(s, j - 1)))

\* std::stoi(s): leading white space, an optional sign, then the longest run
\* of digits; what follows the digits is ignored.  It throws when there is
\* no digit (invalid_argument) or the value does not fit int (out_of_range).
Stoi(s) ==
    LET a    == SkipSpace(s, 1)
        neg  == a <= Len(s) /\ Ch(s, a) = "-"
        b    == IF a <= Len(s) /\ Ch(s, a) \in {"-", "+"} THEN a + 1 ELSE a
        e    == DigitsEnd(s, b)
        mag  == DigitsValue(s, b, e)
    IN  IF e = b THEN [ok |-> FALSE, val |-> 0]
        ELSE IF mag = TooBig THEN [ok |-> FALSE, val |-> 0]
        ELSE IF mag = JustOver
             THEN IF neg THEN [ok |-> TRUE, val |-> (0 - IntMax) - 1]
                  ELSE [ok |-> FALSE, val |-> 0]
        ELSE [ok |-> TRUE, val |-> IF neg THEN 0 - mag ELSE mag]

\* a parser that returns false without a SetLastError
ParseErrorUnset(why) == ""

\* the text ParseAddress gives SetLastError before it returns false
ParseError(why) ==
    CASE why = "scheme" -> "Invalid address format (must be tcp://...)"
      [] why = "colon"  -> "Invalid address format (missing port)"
      [] why = "port"   -> "Invalid port number"

ParseAddress(addr) ==
    IF SubstrTo(addr, 6) # "tcp://"
    THEN [ok |-> FALSE, host |-> "", port |-> 0, err |-> ParseError("scheme")]
    ELSE LET hostPort == SubstrFrom(addr, 6)
             colonPos == Find(hostPort, ":")
         IN  IF colonPos = -1
             THEN [ok |-> FALSE, host |-> "", port |-> 0,
                   err |-> ParseError("colon")]
             ELSE LET h    == SubstrTo(hostPort, colonPos)
                      host == IF h = "*" THEN "0.0.0.0" ELSE h
                      p    == Stoi(SubstrFrom(hostPort, colonPos + 1))
                  IN  IF ~p.ok
                      THEN [ok |-> FALSE, host |-> host, port |-> 0,
                            err |-> ParseError("port")]
                      ELSE [ok |-> TRUE, host |-> host, port |-> p.val,
                            err |-> ""]

\* inet_addr as StringToAddr (lines 106-113) uses it, for the dotted decimal
\* hosts a caller of this model passes: one to four non-empty runs of digits
\* separated by dots.  Every other text, "localhost" included, is INADDR_NONE.
StringToAddr(ip) ==
    /\ Len(ip) > 0
    /\ \A i \in 1..Len(ip) : Ch(ip, i) \in Digits \cup {"."}
    /\ Ch(ip, 1) # "." /\ Ch(ip, Len(ip)) # "."
    /\ \A i \in 1..(Len(ip) - 1) : ~(Ch(ip, i) = "." /\ Ch(ip, i + 1) = ".")
    /\ Cardinality({i \in 1..Len(ip) : Ch(ip, i) = "."}) <= 3

\* htons(port): the int is converted to u_short, keeping its low 16 bits
Htons(port) == port % PortModulus

(***************************************************************************)
(* Inputs of the calls.                                                    *)
(***************************************************************************)
Addresses ==
    { "tcp://*:5556", "tcp://127.0.0.1:5556", "tcp://localhost:5556",
      "invalid://address", "tcp://127.0.0.1", "tcp://*:abc", "tcp://*:5556x",
      "tcp://*:0", "tcp://*:-1", "tcp://*:70000", "tcp://*:99999999999" }

\* the topics and the payloads sent: the empty text and a text of one byte,
\* the byte of a topic and that of a payload kept apart so that a topic read
\* as a payload shows
Topics == {<< >>, << 1 >>}
Payloads == {<< >>, << 2 >>}
Handles == 1..MaxHandle

(***************************************************************************)
(* State.                                                                  *)
(***************************************************************************)
VARIABLES
    g_initialized,    \* line 45
    g_next_handle,    \* line 46
    g_sockets,        \* line 47: handle -> ZMQSocket
    g_cs,             \* line 48: "uninitialized", "ready" or "deleted"
    g_last_error,     \* line 49
    wsaStarted,       \* WSAStartup calls not yet matched by WSACleanup
    openSocks,        \* the SOCKET values that are open
    listeners,        \* listening socket -> [host, port] it is bound to
    pending,          \* listening socket -> connections completed, not accepted
    remote,           \* accepted socket -> the subscriber socket at the other
                      \* end, or INVALID_SOCKET once that end is closed
    rx,               \* subscriber socket -> bytes written to it and not read
    rxEof,            \* subscriber sockets whose publisher end is closed
    wire,             \* subscriber socket -> the messages whose frames are in rx,
                      \* each with whether its whole frame was written
    call,             \* the last call, its arguments and what it returned
    issued,           \* the handles the create calls returned, in order
    issuedBeforeTerm, \* the handles returned before the last zmq_term that ran
    hung,             \* a call entered a lock that does not exist and never returned
    pc,               \* thread -> where it is in the call it makes
    req,              \* thread -> the call it makes and its arguments
    owner,            \* the thread that owns g_cs, or NoThread
    initialized_,     \* mt4zmq_v2.cpp line 283: SocketManager::initialized_
    next_handle_,     \* mt4zmq_v2.cpp line 281: SocketManager::next_handle_
    sockets_,         \* mt4zmq_v2.cpp line 279: handle -> "PUB" or "SUB"
    v2call            \* the last call made to the v2 library and its result

vars == << g_initialized, g_next_handle, g_sockets, g_cs, g_last_error,
           wsaStarted, openSocks, listeners, pending, remote, rx, rxEof, wire,
           call, issued, issuedBeforeTerm, hung, pc, req, owner,
           initialized_, next_handle_, sockets_, v2call >>

registry == << g_sockets, g_next_handle >>
library == << g_initialized, g_cs, wsaStarted >>
transport == << openSocks, listeners, pending, remote, rx, rxEof, wire >>
history == << issued, issuedBeforeTerm >>
threads == << pc, req, owner >>
manager == << initialized_, next_handle_, sockets_, v2call >>

\* the threads of the caller, and the owner of a lock nobody owns
Threads == {1, 2}
NoThread == 0

Init ==
    /\ g_initialized = FALSE
    /\ g_next_handle = 1
    /\ g_sockets = << >>
    /\ g_cs = "uninitialized"
    /\ g_last_error = ""
    /\ wsaStarted = 0
    /\ openSocks = {}
    /\ listeners = << >>
    /\ pending = << >>
    /\ remote = << >>
    /\ rx = << >>
    /\ rxEof = {}
    /\ wire = << >>
    /\ call = [op |-> "none"]
    /\ issued = << >>
    /\ issuedBeforeTerm = {}
    /\ hung = FALSE
    /\ pc = [t \in Threads |-> "idle"]
    /\ req = [t \in Threads |-> [op |-> "none"]]
    /\ owner = NoThread
    /\ initialized_ = FALSE
    /\ next_handle_ = 1
    /\ sockets_ = << >>
    /\ v2call = [op |-> "none", returned |-> TRUE, ret |-> 0]

(***************************************************************************)
(* The transport: socket, bind, listen, connect, accept, send, recv and    *)
(* closesocket of the sockets library, as the code uses them.              *)
(***************************************************************************)
Restrict(f, D) == [k \in D |-> f[k]]
With(f, k, v) == [y \in DOMAIN f \cup {k} |-> IF y = k THEN v ELSE f[y]]
Range(q) == {q[i] : i \in DOMAIN q}

\* a transport that hands out a SOCKET value that may still be open
FirstSocket(open) == 1

\* socket() and accept() return the lowest SOCKET value that is not open
FreshSocket(open) ==
    CHOOSE n \in 1..(Cardinality(open) + 1) :
        n \notin open /\ \A m \in 1..(n - 1) : m \in open

\* closesocket on every socket of S: a closed listening socket resets the
\* connections it had not accepted, a closed accepted socket ends the stream
\* of its subscriber, a closed subscriber socket leaves its publisher end
\* without a peer
CloseSockets(S) ==
    /\ openSocks' = openSocks \ S
    /\ listeners' = Restrict(listeners, DOMAIN listeners \ S)
    /\ pending' = [l \in DOMAIN pending \ S |->
                     [i \in 1..Len(pending[l]) |->
                        IF pending[l][i] \in S THEN INVALID_SOCKET
                        ELSE pending[l][i]]]
    /\ remote' = [a \in DOMAIN remote \ S |->
                    IF remote[a] \in S THEN INVALID_SOCKET ELSE remote[a]]
    /\ rx' = Restrict(rx, DOMAIN rx \ S)
    /\ wire' = Restrict(wire, DOMAIN wire \ S)
    /\ rxEof' = ((rxEof \cup {remote[a] : a \in DOMAIN remote \cap S}
                        \cup UNION {Range(pending[l]) : l \in DOMAIN pending \cap S})
                 \ S) \ {INVALID_SOCKET}

\* the listening sockets a connect to (host, port) can reach
ListenersAt(host, port) ==
    {l \in DOMAIN listeners :
        /\ port # 0
        /\ host # "0.0.0.0"
        /\ listeners[l].port = port
        /\ listeners[l].host \in {"0.0.0.0", host}}

\* what the environment can make fail in a create call
PublisherFaults == {"none", "socket", "bind", "listen"}
SubscriberFaults == {"none", "socket"}

(***************************************************************************)
(* zmq_init (lines 116-129).                                               *)
(***************************************************************************)
\* a zmq_init that starts the library over on every call
Reinitialize(startupOk) ==
    IF ~startupOk
    THEN /\ g_last_error' = "WSAStartup failed"
         /\ UNCHANGED library
    ELSE /\ g_cs' = "ready"
         /\ wsaStarted' = wsaStarted + 1
         /\ g_initialized' = TRUE
         /\ UNCHANGED g_last_error

\* the effect of zmq_init on the library state; startupOk is WSAStartup's result
InitEffect(startupOk) ==
    IF g_initialized
    THEN UNCHANGED << library, g_last_error >>
    ELSE IF ~startupOk
    THEN /\ g_last_error' = "WSAStartup failed"
         /\ UNCHANGED library
    ELSE /\ g_cs' = "ready"
         /\ wsaStarted' = wsaStarted + 1
         /\ g_initialized' = TRUE
         /\ UNCHANGED g_last_error

InitResult(startupOk) == IF g_initialized \/ startupOk THEN 0 ELSE -1

zmq_init(startupOk) ==
    /\ ~hung
    /\ InitEffect(startupOk)
    /\ call' = [op |-> "zmq_init", returned |-> TRUE, ret |-> InitResult(startupOk)]
    /\ UNCHANGED << registry, transport, history, hung, threads >>

(***************************************************************************)
(* zmq_create_publisher (lines 132-197).                                   *)
(***************************************************************************)
\* a create that hands out the lowest handle not in the registry
LowestFreeHandle ==
    CHOOSE h \in 1..(Cardinality(DOMAIN g_sockets) + 1) :
        h \notin DOMAIN g_sockets /\ \A k \in 1..(h - 1) : k \in DOMAIN g_sockets

\* the handle a successful create returns, and the counter after it
NextHandle == g_next_handle
BumpedHandle == g_next_handle + 1

\* the library state after the "if (!g_initialized) zmq_init()" of a create
\* whose WSAStartup succeeds
AutoInit ==
    /\ g_cs' = "ready"
    /\ wsaStarted' = IF g_initialized THEN wsaStarted ELSE wsaStarted + 1
    /\ g_initialized' = TRUE

\* a create that returns -1 and forgets the socket it made
LeftOpenForgotten(sockets) ==
    IF sockets = 1 THEN {FreshSocket(openSocks)} ELSE {}

\* the sockets a failing create leaves open: each failing step after
\* socket() calls closesocket(sock) before it returns (lines 168, 174, 181,
\* 294, 300)
LeftOpen(sockets) == {}

\* a create call that returns -1; error is the text given to SetLastError
\* ("" when the failing step stored none), sockets the socket() calls made
CreateFailed(name, address, error, sockets) ==
    /\ g_last_error' = IF error = "" THEN g_last_error ELSE error
    /\ call' = [op |-> name, returned |-> TRUE, address |-> address,
                ret |-> -1, sockets |-> sockets]
    /\ openSocks' = openSocks \cup LeftOpen(sockets)
    /\ UNCHANGED << registry, listeners, pending, remote, rx, rxEof, wire,
                    history, hung >>

Register(name, address, zmqSock) ==
    /\ g_sockets' = With(g_sockets, NextHandle, zmqSock)
    /\ g_next_handle' = BumpedHandle
    /\ issued' = Append(issued, NextHandle)
    /\ call' = [op |-> name, returned |-> TRUE, address |-> address,
                ret |-> NextHandle, sockets |-> 1]
    /\ UNCHANGED << g_last_error, issuedBeforeTerm, hung >>

\* lines 137-196: what the call does once it holds g_cs
PublisherBody(address, fault) ==
    LET parsed == ParseAddress(address)
        sock   == FreshSocket(openSocks)
    IN  IF ~parsed.ok
        THEN CreateFailed("zmq_create_publisher", address, parsed.err, 0)
        ELSE IF fault = "socket"
        THEN CreateFailed("zmq_create_publisher", address,
                          "Failed to create socket", 0)
        ELSE IF ~StringToAddr(parsed.host)
        THEN CreateFailed("zmq_create_publisher", address,
                          "Invalid IP address", 1)
        ELSE IF fault = "bind"
        THEN CreateFailed("zmq_create_publisher", address,
                          "Failed to bind socket", 1)
        ELSE IF fault = "listen"
        THEN CreateFailed("zmq_create_publisher", address,
                          "Failed to listen on socket", 1)
        ELSE /\ openSocks' = openSocks \cup {sock}
             /\ listeners' = With(listeners, sock,
                                  [host |-> parsed.host,
                                   port |-> Htons(parsed.port)])
             /\ pending' = With(pending, sock, << >>)
             /\ UNCHANGED << remote, rx, rxEof, wire >>
             /\ Register("zmq_create_publisher", address,
                         [socket |-> sock, type |-> "PUB",
                          address |-> address, is_bound |-> TRUE,
                          clients |-> << >>])

zmq_create_publisher(address, startupOk, fault) ==
    /\ ~hung
    /\ UNCHANGED threads
    /\ IF ~g_initialized /\ ~startupOk
       THEN /\ CreateFailed("zmq_create_publisher", address, "WSAStartup failed", 0)
            /\ UNCHANGED library
       ELSE /\ AutoInit
            /\ PublisherBody(address, fault)

(***************************************************************************)
(* zmq_create_subscriber (lines 262-319).                                  *)
(***************************************************************************)
\* a publisher that keeps its last frame for the connections made after it
ConnectedWithBacklog ==
    IF call.op = "zmq_send_message" /\ call.returned /\ call.ret = 0
    THEN << NUL >> ELSE << >>

\* the stream of a connection that connect (line 298) has just made: nothing
\* was written to it, whatever the publisher sent before
Connected == << >>

\* lines 267-318: what the call does once it holds g_cs
SubscriberBody(address, fault) ==
    LET parsed == ParseAddress(address)
        host   == IF parsed.host = "localhost" THEN "127.0.0.1"
                  ELSE parsed.host
        sock   == FreshSocket(openSocks)
        found  == ListenersAt(host, Htons(parsed.port))
    IN  IF ~parsed.ok
        THEN CreateFailed("zmq_create_subscriber", address, parsed.err, 0)
        ELSE IF fault = "socket"
        THEN CreateFailed("zmq_create_subscriber", address,
                          "Failed to create socket", 0)
        ELSE IF ~StringToAddr(host)
        THEN CreateFailed("zmq_create_subscriber", address,
                          "Invalid IP address", 1)
        ELSE IF found = {}
        THEN CreateFailed("zmq_create_subscriber", address,
                          "Failed to connect", 1)
        ELSE \E l \in found :
             /\ openSocks' = openSocks \cup {sock}
             /\ pending' = [pending EXCEPT ![l] = Append(@, sock)]
             /\ rx' = With(rx, sock, Connected)
             /\ wire' = With(wire, sock, << >>)
             /\ UNCHANGED << listeners, remote, rxEof >>
             /\ Register("zmq_create_subscriber", address,
                         [socket |-> sock, type |-> "SUB",
                          address |-> address, is_bound |-> FALSE,
                          clients |-> << >>])

zmq_create_subscriber(address, startupOk, fault) ==
    /\ ~hung
    /\ UNCHANGED threads
    /\ IF ~g_initialized /\ ~startupOk
       THEN /\ CreateFailed("zmq_create_subscriber", address, "WSAStartup failed", 0)
            /\ UNCHANGED library
       ELSE /\ AutoInit
            /\ SubscriberBody(address, fault)

(***************************************************************************)
(* CriticalSectionLock (lines 52-61) on g_cs.  zmq_send_message,           *)
(* zmq_recv_message and zmq_close enter g_cs without looking at            *)
(* g_initialized.  Entering a critical section that was never initialized  *)
(* or was deleted is undefined: the call either never returns or goes on   *)
(* as if it held the lock.                                                 *)
(***************************************************************************)
LockExists == g_cs = "ready"

NeverReturns(name, handle) ==
    /\ ~LockExists
    /\ hung' = TRUE
    /\ call' = [op |-> name, returned |-> FALSE, handle |-> handle]
    /\ UNCHANGED << registry, library, transport, history, g_last_error >>

(***************************************************************************)
(* AcceptConnections (lines 200-216): accept until none is pending.        *)
(***************************************************************************)
RECURSIVE AcceptLoop(_, _, _, _)
AcceptLoop(clients, open, rem, queue) ==
    IF queue = << >>
    THEN [clients |-> clients, openSocks |-> open, remote |-> rem]
    ELSE LET client == FreshSocket(open)
         IN  AcceptLoop(Append(clients, client), open \cup {client},
                        With(rem, client, Head(queue)), Tail(queue))

\* an admission that takes one pending connection per call
AcceptOne(sock) ==
    IF sock.socket \in DOMAIN pending /\ pending[sock.socket] # << >>
    THEN AcceptLoop(sock.clients, openSocks, remote, << Head(pending[sock.socket]) >>)
    ELSE [clients |-> sock.clients, openSocks |-> openSocks, remote |-> remote]

\* accept on a socket that is not listening (a subscriber's) fails at once
AcceptConnections(sock) ==
    IF sock.socket \in DOMAIN pending
    THEN AcceptLoop(sock.clients, openSocks, remote, pending[sock.socket])
    ELSE [clients |-> sock.clients, openSocks |-> openSocks, remote |-> remote]

(***************************************************************************)
(* zmq_send_message (lines 219-259).                                       *)
(***************************************************************************)
\* topicStr + '\0' + msgStr
Frame(topicStr, msgStr) == topicStr \o << NUL >> \o msgStr

\* bytes of the frame one non-blocking send puts on the stream of `client`
\* (0 with no peer left: what is written then reaches nobody)
Written(client, frame, rem) ==
    IF rem[client] = INVALID_SOCKET THEN 0
    ELSE Min(StreamCap - Len(rx[rem[client]]), Len(frame))

\* send's outcome on `client`: "error" is SOCKET_ERROR with an error other
\* than WSAEWOULDBLOCK, which the transport reports, or not yet, for a
\* connection whose peer is gone (`reset` holds those it reports)
SendOutcome(client, frame, rem, reset) ==
    IF rem[client] = INVALID_SOCKET
    THEN IF client \in reset THEN "error" ELSE "sent"
    ELSE IF Written(client, frame, rem) = 0 THEN "wouldblock"
    ELSE IF Written(client, frame, rem) < Len(frame) THEN "partial"
    ELSE "sent"

\* a broadcast that gives up at the first write that does not go through
AttemptedUntilFailure(clients, frame, rem, reset) ==
    {clients[i] : i \in {j \in 1..Len(clients) :
        \A k \in 1..(j - 1) :
            SendOutcome(clients[k], frame, rem, reset) \notin {"error", "wouldblock"}}}

\* the clients the loop of lines 241-256 calls send on: each one of the list,
\* whatever the earlier writes came to (the loop has no break)
Attempted(clients, frame, rem, reset) == Range(clients)

\* a send that drops no connection
NothingDisconnected(clients, frame, rem, reset) == {}

\* a send that also drops the connections whose write would block
DisconnectedOrSlow(clients, frame, rem, reset) ==
    {c \in Range(clients) :
        SendOutcome(c, frame, rem, reset) \in {"error", "wouldblock"}}

\* the clients of the list that the loop puts in `disconnected`
Disconnected(clients, frame, rem, reset) ==
    {c \in Range(clients) : SendOutcome(c, frame, rem, reset) = "error"}

\* a send that reports the connections it dropped
SendResultStrict(disconnected) == IF disconnected = {} THEN 0 ELSE -1

\* return value of zmq_send_message once the handle is found
SendResult(disconnected) == 0

SendBody(handle, topic, message) ==
    IF handle \notin DOMAIN g_sockets
    THEN /\ g_last_error' = "Invalid handle"
         /\ call' = [op |-> "zmq_send_message", returned |-> TRUE,
                     handle |-> handle, ret |-> -1,
                     accepted |-> << >>, acceptOn |-> INVALID_SOCKET,
                     writes |-> << >>]
         /\ UNCHANGED << registry, library, transport, history, hung >>
    ELSE LET sock     == g_sockets[handle]
             acc      == AcceptConnections(sock)
             fullMsg  == Frame(topic, message)
             gone     == {c \in Range(acc.clients) : acc.remote[c] = INVALID_SOCKET}
         IN  \E reset \in SUBSET gone :
             LET tried == Attempted(acc.clients, fullMsg, acc.remote, reset)
                 disconnected == tried \cap Disconnected(acc.clients, fullMsg,
                                                         acc.remote, reset)
                 reached == {c \in tried : Written(c, fullMsg, acc.remote) > 0}
                 kept == SelectSeq(acc.clients, LAMBDA c : c \notin disconnected)
             IN  /\ openSocks' = acc.openSocks \ disconnected
                 /\ remote' = Restrict(acc.remote, DOMAIN acc.remote \ disconnected)
                 /\ pending' = [l \in DOMAIN pending |->
                                  IF l = sock.socket THEN << >> ELSE pending[l]]
                 /\ rx' = [s \in DOMAIN rx |->
                             IF \E c \in reached : acc.remote[c] = s
                             THEN LET c == CHOOSE c \in reached : acc.remote[c] = s
                                  IN  rx[s] \o SubSeq(fullMsg, 1,
                                                      Written(c, fullMsg, acc.remote))
                             ELSE rx[s]]
                 /\ wire' = [s \in DOMAIN wire |->
                               IF \E c \in reached : acc.remote[c] = s
                               THEN LET c == CHOOSE c \in reached : acc.remote[c] = s
                                    IN  Append(wire[s],
                                               [topic |-> topic, message |-> message,
                                                whole |-> Written(c, fullMsg, acc.remote)
                                                            = Len(fullMsg)])
                               ELSE wire[s]]
                 /\ g_sockets' = [g_sockets EXCEPT ![handle].clients = kept]
                 /\ call' = [op |-> "zmq_send_message", returned |-> TRUE,
                             handle |-> handle, ret |-> SendResult(disconnected),
                             accepted |-> SubSeq(acc.clients, Len(sock.clients) + 1,
                                                 Len(acc.clients)),
                             acceptOn |-> sock.socket,
                             writes |-> [i \in 1..Len(acc.clients) |->
                                           IF acc.clients[i] \in tried
                                           THEN SendOutcome(acc.clients[i], fullMsg,
                                                            acc.remote, reset)
                                           ELSE "none"]]
                 /\ UNCHANGED << g_next_handle, library, listeners, rxEof,
                                 history, g_last_error, hung >>

zmq_send_message(handle, topic, message) ==
    /\ ~hung
    /\ UNCHANGED threads
    /\ \/ NeverReturns("zmq_send_message", handle)
       \/ SendBody(handle, topic, message)

(***************************************************************************)
(* zmq_recv_message (lines 329-381).                                       *)
(***************************************************************************)
\* MultiByteToWideChar(..., str.c_str(), -1, ...): the text up to the first NUL
CStr(str) ==
    LET nul == Find(str, << NUL >>)
    IN  IF nul = -1 THEN str ELSE SubstrTo(str, nul)

\* a receive that stores no text, whatever it failed on
RecvFailureSilent(kind) == [ret |-> -1, error |-> ""]

\* what the call shows its caller when it ends without a message: the return
\* value, and the text it stored in g_last_error ("" when it stored none)
RecvFailure(kind) ==
    CASE kind = "InvalidHandle"    -> [ret |-> -1, error |-> "Invalid handle"]
      [] kind = "NotSubscriber"    -> [ret |-> -1, error |-> "Not a subscriber socket"]
      [] kind = "Timeout"          -> [ret |-> -1, error |-> ""]
      [] kind = "ConnectionClosed" -> [ret |-> -1, error |-> ""]
      [] kind = "MalformedFrame"   -> [ret |-> -1, error |-> ""]

\* a receive that gives up the handle it failed on
DroppedOnFailure(handle) == Restrict(g_sockets, DOMAIN g_sockets \ {handle})

\* the registry after a receive that ends without a message: every return
\* of lines 335-372 leaves g_sockets and the ZMQSocket as they were
KeptOnFailure(handle) == g_sockets

RecvFailed(handle, kind) ==
    /\ g_last_error' = IF RecvFailure(kind).error = "" THEN g_last_error
                       ELSE RecvFailure(kind).error
    /\ call' = [op |-> "zmq_recv_message", returned |-> TRUE, handle |-> handle,
                ret |-> RecvFailure(kind).ret, kind |-> kind,
                error |-> RecvFailure(kind).error,
                frames |-> IF handle \in DOMAIN g_sockets
                              /\ g_sockets[handle].socket \in DOMAIN wire
                           THEN wire[g_sockets[handle].socket] ELSE << >>]
    /\ g_sockets' = KeptOnFailure(handle)
    /\ UNCHANGED << g_next_handle, library, openSocks, listeners, pending, remote,
                    rxEof, issued, issuedBeforeTerm, hung >>

RecvBody(handle) ==
    IF handle \notin DOMAIN g_sockets
    THEN RecvFailed(handle, "InvalidHandle") /\ UNCHANGED << rx, wire >>
    ELSE IF g_sockets[handle].type # "SUB"
    THEN RecvFailed(handle, "NotSubscriber") /\ UNCHANGED << rx, wire >>
    ELSE LET sock     == g_sockets[handle].socket
             received == Min(Len(rx[sock]), RecvBufSize)
             data     == SubstrTo(rx[sock], received)
             nullPos  == Find(data, << NUL >>)
             taken    == /\ rx' = [rx EXCEPT ![sock] = SubstrFrom(@, received)]
                         /\ wire' = [wire EXCEPT ![sock] =
                                       IF received = Len(rx[sock]) THEN << >> ELSE @]
         IN  IF rx[sock] = << >>
             THEN \* select: readable only once the stream has ended, and then
                  \* recv returns 0 or SOCKET_ERROR
                  /\ RecvFailed(handle, IF sock \in rxEof THEN "ConnectionClosed"
                                        ELSE "Timeout")
                  /\ UNCHANGED << rx, wire >>
             ELSE IF nullPos = -1
             THEN RecvFailed(handle, "MalformedFrame") /\ taken
             ELSE /\ taken
                  /\ call' = [op |-> "zmq_recv_message", returned |-> TRUE,
                              handle |-> handle, ret |-> 0, kind |-> "Message",
                              topic |-> CStr(SubstrTo(data, nullPos)),
                              message |-> CStr(SubstrFrom(data, nullPos + 1)),
                              frames |-> wire[sock]]
                  /\ UNCHANGED << registry, library, openSocks, listeners, pending,
                                  remote, rxEof, history, g_last_error, hung >>

zmq_recv_message(handle) ==
    /\ ~hung
    /\ UNCHANGED threads
    /\ \/ NeverReturns("zmq_recv_message", handle)
       \/ RecvBody(handle)

(***************************************************************************)
(* ZMQSocket::Close (lines 32-41), zmq_close (lines 384-396) and           *)
(* zmq_term (lines 399-415).                                               *)
(***************************************************************************)
\* a destructor that closes the socket and forgets the clients
CloseSocketOnly(zmqSock) == {zmqSock.socket}

\* the sockets ~ZMQSocket closes: the socket itself and every client
Close(zmqSock) == {zmqSock.socket} \cup Range(zmqSock.clients)

\* the closesocket calls of Close, in the order it makes them: `socket`
\* first (lines 33-36), then each element of `clients` (lines 37-39)
CloseOrder(zmqSock) == << zmqSock.socket >> \o zmqSock.clients

\* the registry after g_sockets.erase(it)
Erase(handle) == Restrict(g_sockets, DOMAIN g_sockets \ {handle})

CloseBody(handle) ==
    IF handle \notin DOMAIN g_sockets
    THEN /\ call' = [op |-> "zmq_close", returned |-> TRUE, handle |-> handle,
                     ret |-> -1, closeOrder |-> << >>]
         /\ UNCHANGED << registry, library, transport, history, g_last_error, hung >>
    ELSE /\ CloseSockets(Close(g_sockets[handle]))
         /\ g_sockets' = Erase(handle)
         /\ call' = [op |-> "zmq_close", returned |-> TRUE, handle |-> handle,
                     ret |-> 0, closeOrder |-> CloseOrder(g_sockets[handle])]
         /\ UNCHANGED << g_next_handle, library, history, g_last_error, hung >>

zmq_close(handle) ==
    /\ ~hung
    /\ UNCHANGED threads
    /\ \/ NeverReturns("zmq_close", handle)
       \/ CloseBody(handle)

\* a zmq_term that starts the handles over
HandleReset == 1

\* the next-handle counter after zmq_term: the code leaves it alone
HandleAfterTerm == g_next_handle

\* a zmq_term that deletes the sockets and keeps their entries
ClearedNothing == g_sockets

\* the registry after zmq_term's g_sockets.clear()
Cleared == << >>

\* line 400: the call made with the state not initialized
TermSkipped ==
    /\ call' = [op |-> "zmq_term", returned |-> TRUE, ran |-> FALSE,
                closed |-> {}]
    /\ UNCHANGED << registry, library, transport, history, g_last_error, hung >>

\* lines 402-410: what the call does while it holds g_cs
TermBody ==
    /\ CloseSockets(UNION {Close(g_sockets[h]) : h \in DOMAIN g_sockets})
    /\ g_sockets' = Cleared
    /\ g_next_handle' = HandleAfterTerm
    /\ issuedBeforeTerm' = Range(issued)
    /\ call' = [op |-> "zmq_term", returned |-> TRUE, ran |-> TRUE,
                closed |-> UNION {Close(g_sockets[h]) : h \in DOMAIN g_sockets}]
    /\ UNCHANGED << issued, g_last_error, hung >>

\* lines 412-414: what it does after it left g_cs
TermTail ==
    /\ g_cs' = "deleted"
    /\ wsaStarted' = wsaStarted - 1
    /\ g_initialized' = FALSE

zmq_term ==
    /\ ~hung
    /\ UNCHANGED threads
    /\ IF ~g_initialized THEN TermSkipped ELSE TermBody /\ TermTail

(***************************************************************************)
(* zmq_subscribe (lines 322-326).                                          *)
(***************************************************************************)
\* the return value of zmq_subscribe: the handle is not looked at
SubscribeResult(handle) == 0

zmq_subscribe(handle, topic) ==
    /\ ~hung
    /\ call' = [op |-> "zmq_subscribe", returned |-> TRUE, handle |-> handle,
                ret |-> SubscribeResult(handle)]
    /\ UNCHANGED << registry, library, transport, history, g_last_error, hung,
                    threads >>

(***************************************************************************)
(* The calls a single-threaded caller makes, one after the other.          *)
(***************************************************************************)
Lifecycle(pubAddresses, subAddresses, faults, startups) ==
    \/ \E startupOk \in startups :
         /\ zmq_init(startupOk)
         /\ UNCHANGED manager
    \/ \E address \in pubAddresses, startupOk \in startups,
          fault \in PublisherFaults \cap faults :
         /\ g_next_handle <= MaxHandle
         /\ zmq_create_publisher(address, startupOk, fault)
         /\ UNCHANGED manager
    \/ \E address \in subAddresses, startupOk \in startups,
          fault \in SubscriberFaults \cap faults :
         /\ g_next_handle <= MaxHandle
         /\ zmq_create_subscriber(address, startupOk, fault)
         /\ UNCHANGED manager
    \/ /\ zmq_term
       /\ UNCHANGED manager

Traffic ==
    \/ \E handle \in Handles, topic \in Topics, message \in Payloads :
         /\ zmq_send_message(handle, topic, message)
         /\ UNCHANGED manager
    \/ \E handle \in Handles :
         /\ zmq_recv_message(handle)
         /\ UNCHANGED manager
    \/ \E handle \in Handles :
         /\ zmq_close(handle)
         /\ UNCHANGED manager

\* the calls of the test program: publishers on the wildcard address,
\* subscribers on the loopback address, and a malformed address
Next ==
    \/ Lifecycle({"tcp://*:5556", "invalid://address"},
                 {"tcp://127.0.0.1:5556", "invalid://address"}, {"none"}, {TRUE})
    \/ Traffic

Spec == Init /\ [][Next]_vars

\* every address of Addresses and every fault of the environment, given to
\* both create calls, with subscribe, close and terminate in between
NextAddr ==
    \/ Lifecycle(Addresses, Addresses, PublisherFaults \cup SubscriberFaults, BOOLEAN)
    \/ \E handle \in Handles, topic \in Topics :
         /\ zmq_subscribe(handle, topic)
         /\ UNCHANGED manager
    \/ \E handle \in Handles :
         /\ zmq_close(handle)
         /\ UNCHANGED manager

SpecAddr == Init /\ [][NextAddr]_vars

(***************************************************************************)
(* One publisher and the subscribers that connect to it, as in the         *)
(* publish/subscribe part of the test program: the publisher gets handle   *)
(* 1 and sends one message again and again, the subscribers get the        *)
(* handles after it, receive and are closed.                               *)
(***************************************************************************)
PeerHandles == 2..(MaxPeers + 1)

NextPeers ==
    \/ /\ g_next_handle = 1
       /\ zmq_create_publisher("tcp://*:5556", TRUE, "none")
       /\ UNCHANGED manager
    \/ /\ g_next_handle \in PeerHandles
       /\ zmq_create_subscriber("tcp://127.0.0.1:5556", TRUE, "none")
       /\ UNCHANGED manager
    \/ /\ zmq_send_message(1, << 1 >>, << 2 >>)
       /\ UNCHANGED manager
    \/ \E handle \in PeerHandles :
         /\ zmq_recv_message(handle)
         /\ UNCHANGED manager
    \/ \E handle \in PeerHandles :
         /\ zmq_close(handle)
         /\ UNCHANGED manager

SpecPeers == Init /\ [][NextPeers]_vars

(***************************************************************************)
(* One publisher and one subscriber, with topics up to the length that     *)
(* fills the subscriber's stream before the separator is written.          *)
(***************************************************************************)
LongTopic == [i \in 1..StreamCap |-> 1]

FrameTopics == Topics \cup {LongTopic}

NextFrames ==
    \/ /\ g_next_handle = 1
       /\ zmq_create_publisher("tcp://*:5556", TRUE, "none")
       /\ UNCHANGED manager
    \/ /\ g_next_handle = 2
       /\ zmq_create_subscriber("tcp://127.0.0.1:5556", TRUE, "none")
       /\ UNCHANGED manager
    \/ \E topic \in FrameTopics, message \in Payloads :
         /\ zmq_send_message(1, topic, message)
         /\ UNCHANGED manager
    \/ \E handle \in 1..2 :
         /\ zmq_recv_message(handle)
         /\ UNCHANGED manager
    \/ \E handle \in 1..2 :
         /\ zmq_close(handle)
         /\ UNCHANGED manager

SpecFrames == Init /\ [][NextFrames]_vars

(***************************************************************************)
(* The library of mt4zmq_v2.cpp: the SocketManager behind the same C API   *)
(* (lines 412-452).  Of a socket it is kept whether it is a                *)
(* PublisherSocket or a SubscriberSocket; a registered socket is           *)
(* connected, since the only Close of a registered socket is the one of    *)
(* its removal.  Bind and Connect do not read the address: they use port   *)
(* 5556, any-address and 127.0.0.1 (lines 95-100, 192-198).                *)
(***************************************************************************)
V2Returns(name, ret) == v2call' = [op |-> name, returned |-> TRUE, ret |-> ret]

\* zmq_init (lines 412-414) and SocketManager::Initialize (lines 300-311)
V2Initialize(startupOk) ==
    /\ v2call.returned
    /\ initialized_' = (initialized_ \/ startupOk)
    /\ V2Returns("zmq_init", IF initialized_ \/ startupOk THEN 0 ELSE -1)
    /\ UNCHANGED << next_handle_, sockets_ >>

\* zmq_term (lines 416-418) and SocketManager::Shutdown (lines 313-323)
V2Shutdown ==
    /\ v2call.returned
    /\ initialized_' = FALSE
    /\ sockets_' = IF initialized_ THEN << >> ELSE sockets_
    /\ V2Returns("zmq_term", 0)
    /\ UNCHANGED next_handle_

\* lines 334-337, 349-352: handle = next_handle_++; sockets_[handle] = socket
V2Register(name, kind) ==
    /\ sockets_' = With(sockets_, next_handle_, kind)
    /\ next_handle_' = next_handle_ + 1
    /\ V2Returns(name, next_handle_)
    /\ UNCHANGED initialized_

\* zmq_create_publisher (lines 420-423), SocketManager::CreatePublisher
\* (lines 325-338) and PublisherSocket::Bind (lines 86-119), with socket,
\* bind and listen succeeding: there is no initialization on demand
V2CreatePublisher(address) ==
    /\ v2call.returned
    /\ IF ~initialized_
       THEN V2Returns("zmq_create_publisher", -1)
            /\ UNCHANGED << initialized_, next_handle_, sockets_ >>
       ELSE V2Register("zmq_create_publisher", "PUB")

\* the v2 publishers, which all listen on port 5556
V2Listening == {h \in DOMAIN sockets_ : sockets_[h] = "PUB"}

\* zmq_create_subscriber (lines 425-428), SocketManager::CreateSubscriber
\* (lines 340-353) and SubscriberSocket::Connect (lines 183-209).  When
\* connect fails, Connect calls Close (line 201), which locks the mutex_
\* that Connect holds (lines 57, 184): locking a std::mutex its thread owns
\* is undefined, the call ends with -1 or does not return
V2CreateSubscriber(address) ==
    /\ v2call.returned
    /\ IF ~initialized_
       THEN V2Returns("zmq_create_subscriber", -1)
            /\ UNCHANGED << initialized_, next_handle_, sockets_ >>
       ELSE IF V2Listening = {}
       THEN /\ \E returned \in BOOLEAN :
                 v2call' = [op |-> "zmq_create_subscriber",
                            returned |-> returned, ret |-> -1]
            /\ UNCHANGED << initialized_, next_handle_, sockets_ >>
       ELSE V2Register("zmq_create_subscriber", "SUB")

\* zmq_send_message (lines 430-434), SocketManager::SendMessage (lines
\* 355-365), PublisherSocket::Send (lines 122-155: true) and
\* SubscriberSocket::Send (lines 211-214: false)
V2SendMessage(handle) ==
    /\ v2call.returned
    /\ V2Returns("zmq_send_message",
                 IF handle \in DOMAIN sockets_ /\ sockets_[handle] = "PUB"
                 THEN 0 ELSE -1)
    /\ UNCHANGED << initialized_, next_handle_, sockets_ >>

\* zmq_recv_message (lines 436-447), SocketManager::ReceiveMessage (lines
\* 367-377), PublisherSocket::Receive (lines 157-160: false) and
\* SubscriberSocket::Receive (lines 216-248), whose result is that of what
\* its connection holds, which is not kept here: either result
V2ReceiveMessage(handle) ==
    /\ v2call.returned
    /\ \E ret \in {0, -1} :
          /\ ret = 0 => (handle \in DOMAIN sockets_ /\ sockets_[handle] = "SUB")
          /\ V2Returns("zmq_recv_message", ret)
    /\ UNCHANGED << initialized_, next_handle_, sockets_ >>

\* zmq_close (lines 449-452: return 0) and SocketManager::CloseSocket
\* (lines 379-382)
V2CloseSocket(handle) ==
    /\ v2call.returned
    /\ sockets_' = Restrict(sockets_, DOMAIN sockets_ \ {handle})
    /\ V2Returns("zmq_close", 0)
    /\ UNCHANGED << initialized_, next_handle_ >>

(***************************************************************************)
(* One sequence of calls given to both libraries, each with its own        *)
(* state and its own sockets.                                              *)
(***************************************************************************)
NextBoth ==
    \/ /\ zmq_init(TRUE)
       /\ V2Initialize(TRUE)
    \/ /\ g_next_handle <= MaxHandle
       /\ next_handle_ <= MaxHandle
       /\ zmq_create_publisher("tcp://*:5556", TRUE, "none")
       /\ V2CreatePublisher("tcp://*:5556")
    \/ /\ g_next_handle <= MaxHandle
       /\ next_handle_ <= MaxHandle
       /\ zmq_create_subscriber("tcp://127.0.0.1:5556", TRUE, "none")
       /\ V2CreateSubscriber("tcp://127.0.0.1:5556")
    \/ \E handle \in Handles :
         /\ zmq_send_message(handle, << 1 >>, << 2 >>)
         /\ V2SendMessage(handle)
    \/ \E handle \in Handles :
         /\ zmq_recv_message(handle)
         /\ V2ReceiveMessage(handle)
    \/ \E handle \in Handles :
         /\ zmq_close(handle)
         /\ V2CloseSocket(handle)
    \/ /\ zmq_term
       /\ V2Shutdown

SpecBoth == Init /\ [][NextBoth]_vars

(***************************************************************************)
(* The same calls made by two threads.  A call is a sequence of steps:     *)
(* the test of g_initialized outside the lock (lines 117, 133, 263, 400),  *)
(* zmq_init's start of the library (lines 119-127), EnterCriticalSection   *)
(* (line 56), the part of the call made under the lock together with       *)
(* LeaveCriticalSection (line 59), and for zmq_term what it does after it  *)
(* left the lock (lines 412-414).  zmq_recv_message waits in select (line  *)
(* 354) between its EnterCriticalSection and the rest of the call.         *)
(* InitializeCriticalSection on a critical section in use, and             *)
(* EnterCriticalSection on one that does not exist, are undefined: the     *)
(* first leaves the lock with its owner or without, the second never       *)
(* returns or goes on without owning anything.                             *)
(***************************************************************************)
\* what req holds for a thread that is in no call
NoCall == [op |-> "none"]

ThreadCalls ==
    { [op |-> "zmq_init"], [op |-> "zmq_term"],
      [op |-> "zmq_create_publisher", address |-> "tcp://*:5556"],
      [op |-> "zmq_create_subscriber", address |-> "tcp://127.0.0.1:5556"] }
    \cup { [op |-> o, handle |-> h] :
             o \in {"zmq_send_message", "zmq_recv_message", "zmq_close"},
             h \in Handles }

IsCreateCall(r) == r.op \in {"zmq_create_publisher", "zmq_create_subscriber"}

\* the threads that are in zmq_init, past its test of g_initialized
Starting == {t \in Threads : pc[t] = "init"}

\* the call starts: what it does before it reaches the lock
Begin(t, r) ==
    /\ pc[t] = "idle"
    /\ UNCHANGED << owner, hung, manager >>
    /\ IF r.op = "zmq_init" /\ g_initialized
       THEN /\ call' = [op |-> "zmq_init", returned |-> TRUE, ret |-> 0]
            /\ UNCHANGED << pc, req, registry, library, transport, history,
                            g_last_error >>
       ELSE IF r.op = "zmq_term" /\ ~g_initialized
       THEN TermSkipped /\ UNCHANGED << pc, req >>
       ELSE /\ req' = [req EXCEPT ![t] = r]
            /\ IsCreateCall(r) => g_next_handle <= MaxHandle
            /\ r.op \in {"zmq_send_message", "zmq_recv_message", "zmq_close"}
                 => g_initialized
            /\ (r.op = "zmq_init" \/ IsCreateCall(r)) /\ ~g_initialized
                 => wsaStarted + Cardinality(Starting) < MaxStartups
            /\ pc' = [pc EXCEPT ![t] =
                        IF (r.op = "zmq_init" \/ IsCreateCall(r)) /\ ~g_initialized
                        THEN "init" ELSE "enter"]
            /\ UNCHANGED << call, registry, library, transport, history,
                            g_last_error >>

\* lines 119-127, WSAStartup succeeding
Start(t) ==
    /\ pc[t] = "init"
    /\ wsaStarted' = wsaStarted + 1
    /\ g_cs' = "ready"
    /\ owner' \in (IF g_cs = "ready" THEN {owner, NoThread} ELSE {NoThread})
    /\ g_initialized' = TRUE
    /\ IF req[t].op = "zmq_init"
       THEN /\ pc' = [pc EXCEPT ![t] = "idle"]
            /\ req' = [req EXCEPT ![t] = NoCall]
            /\ call' = [op |-> "zmq_init", returned |-> TRUE, ret |-> 0]
       ELSE /\ pc' = [pc EXCEPT ![t] = "enter"]
            /\ UNCHANGED << req, call >>
    /\ UNCHANGED << registry, transport, history, g_last_error, hung, manager >>

\* EnterCriticalSection returns to a thread when no thread owns g_cs
CanEnter == owner = NoThread

Enter(t) ==
    /\ pc[t] = "enter"
    /\ IF LockExists
       THEN /\ CanEnter
            /\ owner' = t
            /\ pc' = [pc EXCEPT ![t] = "inside"]
       ELSE /\ pc' \in {[pc EXCEPT ![t] = "inside"], [pc EXCEPT ![t] = "stuck"]}
            /\ UNCHANGED owner
    /\ UNCHANGED << req, call, registry, library, transport, history,
                    g_last_error, hung, manager >>

\* the part of the call made under the lock
Locked(r) ==
    \/ r.op = "zmq_create_publisher"
         /\ PublisherBody(r.address, "none") /\ UNCHANGED library
    \/ r.op = "zmq_create_subscriber"
         /\ SubscriberBody(r.address, "none") /\ UNCHANGED library
    \/ r.op = "zmq_send_message" /\ SendBody(r.handle, << 1 >>, << 2 >>)
    \/ r.op = "zmq_recv_message" /\ RecvBody(r.handle)
    \/ r.op = "zmq_close" /\ CloseBody(r.handle)
    \/ r.op = "zmq_term" /\ TermBody /\ UNCHANGED library

Leave(t) ==
    /\ pc[t] = "inside"
    /\ Locked(req[t])
    /\ UNCHANGED manager
    /\ owner' \in (IF owner = t THEN {NoThread} ELSE {owner, NoThread})
    /\ IF req[t].op = "zmq_term"
       THEN pc' = [pc EXCEPT ![t] = "tail"] /\ UNCHANGED req
       ELSE pc' = [pc EXCEPT ![t] = "idle"] /\ req' = [req EXCEPT ![t] = NoCall]

\* lines 412-414: DeleteCriticalSection, WSACleanup, g_initialized = false
Cleanup(t) ==
    /\ pc[t] = "tail"
    /\ g_cs' = "deleted"
    /\ wsaStarted' = IF wsaStarted > 0 THEN wsaStarted - 1 ELSE wsaStarted
    /\ g_initialized' = FALSE
    /\ owner' = NoThread
    /\ pc' = [pc EXCEPT ![t] = "idle"]
    /\ req' = [req EXCEPT ![t] = NoCall]
    /\ UNCHANGED << call, registry, transport, history, g_last_error, hung,
                    manager >>

NextThreads ==
    \E t \in Threads :
       \/ \E r \in ThreadCalls : Begin(t, r)
       \/ Start(t)
       \/ Enter(t)
       \/ Leave(t)
       \/ Cleanup(t)

SpecThreads == Init /\ [][NextThreads]_vars

(***************************************************************************)
(* Properties.                                                             *)
(***************************************************************************)
IsCreate == call.op \in {"zmq_create_publisher", "zmq_create_subscriber"}

\* C1: a message sent by a publisher to a connected subscriber is returned
\* by the subscriber's receive with the topic and the payload that were
\* sent, also when several sends precede the receive.  Stated for the
\* receives whose stream holds only frames that were written whole: such a
\* receive returns the topic and the payload of the first of them.
RoundTrip ==
    (/\ call.op = "zmq_recv_message"
     /\ call.returned
     /\ call.ret = 0
     /\ \A i \in 1..Len(call.frames) : call.frames[i].whole)
    => /\ call.frames # << >>
       /\ call.topic = call.frames[1].topic
       /\ call.message = call.frames[1].message

\* C2: the handles the create calls return are positive, start at 1 and
\* strictly increase, so none is returned twice, closed or not.
HandleUniqueness ==
    /\ issued # << >> => issued[1] = 1
    /\ \A i \in 1..Len(issued) : issued[i] > 0
    /\ \A i, j \in 1..Len(issued) : i < j => issued[i] < issued[j]

\* C2's case: a create returns a handle after an earlier handle was closed
HandleAfterCloseIssued ==
    /\ IsCreate
    /\ call.ret > 0
    /\ call.ret = issued[Len(issued)]
    /\ \E i \in 1..(Len(issued) - 1) : issued[i] \notin DOMAIN g_sockets

\* C3: zmq_create_publisher with a well-formed address succeeds, before and
\* after a terminate and whichever way the state was initialized again, and
\* the handle it returns is none of those returned before the terminate.
FreshAfterTerm ==
    (call.op = "zmq_create_publisher" /\ call.address = "tcp://*:5556")
    => /\ call.ret > 0
       /\ call.ret \in DOMAIN g_sockets
       /\ call.ret \notin issuedBeforeTerm

\* C3's case: a publisher created after a terminate that followed creates
PublisherAfterTerm ==
    /\ call.op = "zmq_create_publisher"
    /\ call.ret > 0
    /\ issuedBeforeTerm # {}

\* C4: send on a registered publisher handle returns 0, whatever the writes
\* to its peers did.
SendAlwaysSucceeds ==
    (/\ call.op = "zmq_send_message"
     /\ call.handle \in DOMAIN g_sockets
     /\ g_sockets[call.handle].type = "PUB")
    => call.returned /\ call.ret = 0

\* C4's case: a send all of whose writes failed with a hard error
SendWithAllPeersFailed ==
    /\ call.op = "zmq_send_message"
    /\ call.returned
    /\ call.ret = 0
    /\ call.writes # << >>
    /\ \A i \in 1..Len(call.writes) : call.writes[i] = "error"

\* C4's other cases: no peer at all, and every write would block
SendWithNoPeer ==
    /\ call.op = "zmq_send_message" /\ call.returned /\ call.ret = 0
    /\ call.writes = << >>

SendWithAllPeersBlocked ==
    /\ call.op = "zmq_send_message" /\ call.returned /\ call.ret = 0
    /\ call.writes # << >>
    /\ \A i \in 1..Len(call.writes) : call.writes[i] = "wouldblock"

\* C5: send on a handle that is not in the registry returns -1, accepts
\* nothing, writes nothing and leaves the registry, the counter and every
\* socket as they were.
SendUnknownHandleNoEffect ==
    [][ (call'.op = "zmq_send_message" /\ call'.handle \notin DOMAIN g_sockets)
        => /\ call'.returned
           /\ call'.ret = -1
           /\ call'.accepted = << >>
           /\ call'.writes = << >>
           /\ UNCHANGED << registry, transport >> ]_vars

\* C6: close on a registered handle returns 0 and removes that handle and no
\* other; close on any other handle returns -1 and changes neither the
\* registry nor a socket.
CloseContract ==
    [][ call'.op = "zmq_close"
        => IF call'.handle \in DOMAIN g_sockets
           THEN /\ call'.returned
                /\ call'.ret = 0
                /\ g_sockets' = Restrict(g_sockets, DOMAIN g_sockets \ {call'.handle})
                /\ g_next_handle' = g_next_handle
           ELSE /\ call'.returned
                /\ call'.ret = -1
                /\ UNCHANGED << registry, transport >> ]_vars

\* C7: a receive that times out shows its caller something (the return value
\* or the text stored in lastError) that a receive failing with
\* MalformedFrame or ConnectionClosed does not show.
TimeoutDistinguishable ==
    (call.op = "zmq_recv_message" /\ call.returned /\ call.kind = "Timeout")
    => \A kind \in {"MalformedFrame", "ConnectionClosed"} :
          << call.ret, call.error >>
             # << RecvFailure(kind).ret, RecvFailure(kind).error >>

\* an address whose scheme is not tcp:// or that has no colon after the host
MalformedAddress(addr) ==
    \/ SubstrTo(addr, 6) # "tcp://"
    \/ Find(SubstrFrom(addr, 6), ":") = -1

\* C8: zmq_create_publisher with a malformed address returns -1, leaves a
\* non-empty lastError, makes no socket and adds nothing to the registry.
MalformedAddressRejected ==
    [][ (call'.op = "zmq_create_publisher" /\ MalformedAddress(call'.address))
        => /\ call'.ret = -1
           /\ g_last_error' # ""
           /\ call'.sockets = 0
           /\ UNCHANGED << registry, transport >> ]_vars

\* C8's case: the malformed address of the test, refused while a socket is
\* registered
MalformedAddressTried ==
    /\ call.op = "zmq_create_publisher"
    /\ call.address = "invalid://address"
    /\ call.ret = -1
    /\ g_sockets # << >>

\* the text after the colon of a well-formed address
PortText(addr) ==
    LET hostPort == SubstrFrom(addr, 6)
    IN  SubstrFrom(hostPort, Find(hostPort, ":") + 1)

\* a decimal integer in [1, 65535]
ValidPort(text) ==
    /\ Len(text) \in 1..5
    /\ \A i \in 1..Len(text) : Ch(text, i) \in Digits
    /\ DigitsValue(text, 1, Len(text) + 1) \in 1..65535

\* C9: for an address tcp://<host>:<port> whose port is not a decimal
\* integer in [1, 65535], ParseAddress fails and the create returns -1.
PortValidated ==
    (/\ IsCreate
     /\ ~MalformedAddress(call.address)
     /\ ~ValidPort(PortText(call.address)))
    => /\ ~ParseAddress(call.address).ok
       /\ call.ret = -1

\* the sockets the registry's sockets own
Owned == UNION {Close(g_sockets[h]) : h \in DOMAIN g_sockets}

\* C10 as stated: zmq_term closes every socket and empties the registry, and
\* is a no-op when the state is not initialized or no socket exists.
TermNoOpWithoutSockets ==
    [][ call'.op = "zmq_term"
        => /\ g_sockets' = << >>
           /\ openSocks' \cap Owned = {}
           /\ (~g_initialized \/ g_sockets = << >>)
                 => UNCHANGED << registry, library, transport, g_last_error >> ]_vars

\* C10 as amended: zmq_term closes every socket and empties the registry;
\* it is a no-op when the state is not initialized; with the state
\* initialized and no socket it closes nothing and leaves the registry and
\* the counter alone, and un-initializes the state as it always does.
TermClosesAll ==
    [][ call'.op = "zmq_term"
        => /\ g_sockets' = << >>
           /\ openSocks' \cap Owned = {}
           /\ openSocks' = {}
           /\ ~g_initialized' /\ g_cs' # "ready"
           /\ ~g_initialized
                 => UNCHANGED << registry, library, transport, g_last_error >>
           /\ g_sockets = << >>
                 => UNCHANGED << registry, transport, g_last_error >>
           /\ g_initialized
                 => g_cs' = "deleted" /\ wsaStarted' = wsaStarted - 1 ]_vars

\* C10's case: a terminate that closed a listening socket, an accepted
\* connection and a subscriber's connection
TermClosedSockets ==
    /\ call.op = "zmq_term"
    /\ call.ran
    /\ Cardinality(call.closed) >= 3
    /\ g_sockets = << >>
    /\ openSocks = {}

\* C11: zmq_init called with the state initialized returns 0 and changes
\* nothing: the registry, the counter and the sockets stay as they are and
\* the lock is not created again.
InitIdempotent ==
    [][ (call'.op = "zmq_init" /\ g_initialized)
        => /\ call'.ret = 0
           /\ UNCHANGED << registry, library, transport, g_last_error >> ]_vars

\* C11's case: zmq_init has returned with sockets registered and open, which
\* only an initialized state has
InitWithLiveSockets ==
    /\ call.op = "zmq_init"
    /\ call.ret = 0
    /\ g_initialized
    /\ g_sockets # << >>
    /\ openSocks # {}

\* the texts the create calls give SetLastError
CreateErrors ==
    { ParseError("scheme"), ParseError("colon"), ParseError("port"),
      "WSAStartup failed", "Failed to create socket", "Invalid IP address",
      "Failed to bind socket", "Failed to listen on socket", "Failed to connect" }

\* every text the calls give SetLastError
KnownErrors == CreateErrors \cup {"Invalid handle", "Not a subscriber socket"}

\* a call of create, send, receive or close that returned failure
Failed(c) ==
    /\ c.op \in {"zmq_create_publisher", "zmq_create_subscriber",
                 "zmq_send_message", "zmq_recv_message", "zmq_close"}
    /\ c.returned
    /\ c.ret = -1

\* the texts that are the text of a failure other than the one c returned
Foreign(c) ==
    CASE c.op \in {"zmq_create_publisher", "zmq_create_subscriber"}
           -> KnownErrors \ CreateErrors
      [] c.op \in {"zmq_send_message", "zmq_close"}
           -> KnownErrors \ {"Invalid handle"}
      [] c.op = "zmq_recv_message"
           -> IF c.kind \in {"InvalidHandle", "NotSubscriber"}
              THEN KnownErrors \ {RecvFailure(c.kind).error}
              ELSE KnownErrors

\* C12: after a call of create, send, receive or close returned failure,
\* lastError holds a text, and not the text of another failure.  Stated for
\* the calls made with the state initialized.
LastErrorOverwritten ==
    (Failed(call) /\ g_initialized)
    => g_last_error # "" /\ g_last_error \notin Foreign(call)

HandleOps ==
    {"zmq_send_message", "zmq_recv_message", "zmq_subscribe", "zmq_close"}

\* C13: send, receive, subscribe and close on a handle that is not in the
\* registry return failure.  Stated for the calls made while the lock
\* exists.
HandleLookedUp ==
    [][ (/\ call'.op \in HandleOps
         /\ LockExists
         /\ call'.handle \notin DOMAIN g_sockets)
        => call'.returned /\ call'.ret = -1 ]_vars

\* the subscriber socket a receive call was made on
ReceiverOf(c) == g_sockets[c.handle].socket

\* C14: a message published by a send call that returned before a
\* subscriber connected is never returned by a receive of that subscriber.
\* The stream of a subscriber is empty when it connects, whatever was sent
\* before; afterwards it grows only by the frame of the send call being
\* made, and shrinks only by a receive of that subscriber; and what a
\* receive returns are the first bytes of that stream.
NoBacklog ==
    [][ /\ \A s \in DOMAIN rx' \ DOMAIN rx : rx'[s] = << >> /\ wire'[s] = << >>
        /\ \A s \in DOMAIN rx' \cap DOMAIN rx :
              rx'[s] # rx[s]
              => \/ /\ call'.op = "zmq_recv_message"
                    /\ call'.handle \in DOMAIN g_sockets
                    /\ ReceiverOf(call') = s
                    /\ \E n \in 1..Len(rx[s]) : rx'[s] = SubstrFrom(rx[s], n)
                 \/ /\ call'.op = "zmq_send_message"
                    /\ call'.ret = 0
                    /\ Len(wire'[s]) = Len(wire[s]) + 1
                    /\ LET sent  == wire'[s][Len(wire'[s])]
                           frame == Frame(sent.topic, sent.message)
                       IN  \E n \in 1..Len(frame) :
                              rx'[s] = rx[s] \o SubstrTo(frame, n)
        /\ (call'.op = "zmq_recv_message" /\ call'.returned /\ call'.ret = 0)
           => LET got == call'.topic \o << NUL >> \o call'.message
              IN  /\ Len(got) <= Len(rx[ReceiverOf(call')]) + 1
                  /\ SubstrTo(got, Len(got) - 1)
                       = SubstrTo(rx[ReceiverOf(call')], Len(got) - 1) ]_vars

\* C14's case: a receive returned a message to a subscriber that connected
\* after a send call had returned.  No handle was closed, so no socket ever
\* was, and the socket values were handed out in increasing order: the
\* publisher's connection with a value below the subscriber's was accepted,
\* by a send call, before the subscriber connected.
LateSubscriberReceived ==
    /\ call.op = "zmq_recv_message"
    /\ call.returned
    /\ call.ret = 0
    /\ DOMAIN g_sockets = 1..(g_next_handle - 1)
    /\ g_sockets[1].type = "PUB"
    /\ \E c \in Range(g_sockets[1].clients) : c < g_sockets[call.handle].socket

\* C15: the message a receive returns is the message of one send call whose
\* frame was in the stream of that subscriber, and the receive takes that
\* frame out of the stream, so that no later receive returns it again.
AtMostOnce ==
    [][ (call'.op = "zmq_recv_message" /\ call'.returned /\ call'.ret = 0)
        => \E i \in 1..Len(call'.frames) :
              /\ call'.frames[i].topic = call'.topic
              /\ call'.frames[i].message = call'.message
              /\ \E k \in (i + 1)..(Len(call'.frames) + 1) :
                    wire'[ReceiverOf(call')]
                       = SubSeq(call'.frames, k, Len(call'.frames)) ]_vars

\* a send call that found its handle in the registry
IsSend(c) == c.op = "zmq_send_message" /\ c.returned /\ c.ret = 0

\* the connections a send call wrote to, in the order of its writes: the
\* peer list it found, then the connections it accepted
WrittenTo(c) == g_sockets[c.handle].clients \o c.accepted

\* the connections waiting on the listening socket of the handle of c
Waiting(c) ==
    IF g_sockets[c.handle].socket \in DOMAIN pending
    THEN pending[g_sockets[c.handle].socket] ELSE << >>

FailedWrites(c) ==
    {WrittenTo(c)[i] : i \in {j \in 1..Len(c.writes) : c.writes[j] = "error"}}

\* C19: when a send call returns, every connection whose write failed with
\* an error other than would-block is closed and out of the peer list, and
\* the other connections are in the list in the order they had.
DisconnectedRemoved ==
    [][ (IsSend(call') /\ call'.handle \in DOMAIN g_sockets)
        => /\ FailedWrites(call') \cap openSocks' = {}
           /\ FailedWrites(call') \cap Range(g_sockets'[call'.handle].clients) = {}
           /\ g_sockets'[call'.handle].clients
                = SelectSeq(WrittenTo(call'),
                            LAMBDA c : c \notin FailedWrites(call')) ]_vars

\* C19's case: a failed connection was removed from between two that stay
MiddlePeerRemoved ==
    /\ IsSend(call)
    /\ call.handle \in DOMAIN g_sockets
    /\ Len(g_sockets[call.handle].clients) >= 2
    /\ \E i, j, k \in 1..Len(call.writes) :
          /\ i < j /\ j < k
          /\ call.writes[i] # "error"
          /\ call.writes[j] = "error"
          /\ call.writes[k] # "error"

\* C20: a connection whose write would block in a send call stays in the
\* peer list and open, and nothing of the message reaches its stream; and
\* no send call writes more to a stream than its own frame, so that a
\* message that was skipped is not written by a later call either.
SlowPeerSkipped ==
    [][ (IsSend(call') /\ call'.handle \in DOMAIN g_sockets)
        => /\ \A i \in 1..Len(call'.writes) :
                 call'.writes[i] = "wouldblock"
                 => LET c == WrittenTo(call')[i]
                    IN  /\ c \in Range(g_sockets'[call'.handle].clients)
                        /\ c \in openSocks'
                        /\ remote'[c] \in DOMAIN rx
                        /\ rx'[remote'[c]] = rx[remote'[c]]
                        /\ wire'[remote'[c]] = wire[remote'[c]]
           /\ \A s \in DOMAIN rx :
                 \/ rx'[s] = rx[s] /\ wire'[s] = wire[s]
                 \/ /\ Len(wire'[s]) = Len(wire[s]) + 1
                    /\ Len(rx'[s]) - Len(rx[s])
                         <= Len(Frame(wire'[s][Len(wire'[s])].topic,
                                      wire'[s][Len(wire'[s])].message)) ]_vars

\* C20's case: a write of a send call would block, and its connection is in
\* the peer list and open after the call
SlowPeerKept ==
    /\ IsSend(call)
    /\ call.handle \in DOMAIN g_sockets
    /\ \E i \in 1..Len(call.writes) :
          /\ call.writes[i] = "wouldblock"
          /\ i <= Len(g_sockets[call.handle].clients)
          /\ g_sockets[call.handle].clients[i] \in openSocks

\* the threads that are between their EnterCriticalSection and their
\* LeaveCriticalSection
InsideLock == {t \in Threads : pc[t] = "inside"}

\* thread t waits in the select of zmq_recv_message: it is in the call on a
\* subscriber that has nothing to read
WaitsInReceive(t) ==
    /\ pc[t] = "inside"
    /\ owner = t
    /\ req[t].op = "zmq_recv_message"
    /\ req[t].handle \in DOMAIN g_sockets
    /\ g_sockets[req[t].handle].type = "SUB"
    /\ rx[g_sockets[req[t].handle].socket] = << >>

\* C16: while a thread waits inside zmq_recv_message, a send, a create or
\* a close that another thread makes on another handle does not wait for
\* the receive: the lock it asks for is free.
OthersRunDuringReceive ==
    \A t, u \in Threads :
       (/\ WaitsInReceive(t)
        /\ pc[u] = "enter"
        /\ \/ IsCreateCall(req[u])
           \/ /\ req[u].op \in {"zmq_send_message", "zmq_close"}
              /\ req[u].handle # req[t].handle)
       => CanEnter

\* C17: no two threads are at the same time between EnterCriticalSection
\* and LeaveCriticalSection of g_cs, where the registry is read and changed.
RegistrySerialized == Cardinality(InsideLock) <= 1

\* C21: a send call makes exactly one write on every connection of the peer
\* list, in list order, and what a write comes to on one connection does not
\* keep the later ones from being written: each connection whose peer is
\* still there gets bytes of the frame whenever its stream has room, and is
\* passed over only when it has none.
FanOutIndependent ==
    [][ (IsSend(call') /\ call'.handle \in DOMAIN g_sockets)
        => /\ Len(call'.writes) = Len(WrittenTo(call'))
           /\ \A i \in 1..Len(call'.writes) :
                 LET c == WrittenTo(call')[i]
                 IN  /\ call'.writes[i] \in {"sent", "partial", "wouldblock", "error"}
                     /\ (call'.writes[i] # "error" /\ remote'[c] # INVALID_SOCKET)
                        => LET s == remote'[c]
                           IN  IF Len(rx[s]) < StreamCap
                               THEN /\ Len(rx'[s]) > Len(rx[s])
                                    /\ call'.writes[i] \in {"sent", "partial"}
                               ELSE /\ rx'[s] = rx[s]
                                    /\ call'.writes[i] = "wouldblock" ]_vars

\* a send call whose first two writes were a would-block and an error, in
\* either order, and whose third write went through
WriteAfterFailedWrites ==
    /\ IsSend(call)
    /\ Len(call.writes) = 3
    /\ {call.writes[1], call.writes[2]} = {"error", "wouldblock"}
    /\ call.writes[3] = "sent"

\* C22: closing a publisher closes every connection of its peer list first
\* and its listening socket after them; and, while the lock exists, a send,
\* receive or close on a handle that was issued and is no longer registered
\* returns -1 and leaves the registry alone.
PeersClosedBeforeListener ==
    [][ /\ (/\ call'.op = "zmq_close"
            /\ call'.handle \in DOMAIN g_sockets
            /\ g_sockets[call'.handle].type = "PUB")
           => /\ call'.returned
              /\ call'.closeOrder = g_sockets[call'.handle].clients
                                      \o << g_sockets[call'.handle].socket >>
              /\ Range(call'.closeOrder) \cap openSocks' = {}
              /\ call'.handle \notin DOMAIN g_sockets'
        /\ (/\ LockExists
            /\ call'.op \in {"zmq_send_message", "zmq_recv_message", "zmq_close"}
            /\ call'.handle < g_next_handle
            /\ call'.handle \notin DOMAIN g_sockets)
           => /\ call'.returned
              /\ call'.ret = -1
              /\ UNCHANGED registry ]_vars

\* C23: in every state a subscriber socket has no client, is connected and
\* not listening, a publisher socket is listening and not connected, and
\* the socket a send call called accept on is a publisher's listening
\* socket, never a subscriber's.
RolesNeverMix ==
    /\ \A h \in DOMAIN g_sockets :
          IF g_sockets[h].type = "SUB"
          THEN /\ g_sockets[h].clients = << >>
               /\ g_sockets[h].socket \notin DOMAIN listeners
               /\ g_sockets[h].socket \in DOMAIN rx
          ELSE /\ g_sockets[h].socket \in DOMAIN listeners
               /\ g_sockets[h].socket \notin DOMAIN rx
    /\ (/\ call.op = "zmq_send_message"
        /\ call.returned
        /\ call.acceptOn # INVALID_SOCKET)
       => /\ call.handle \in DOMAIN g_sockets
          /\ g_sockets[call.handle].type = "PUB"
          /\ call.acceptOn \in DOMAIN listeners

\* the sockets that belong to a registered socket: its own and its clients
Endpoints(h) == Close(g_sockets[h])

\* C24: in every state each registered handle is at least 1 and below
\* g_next_handle, its socket and its clients are open, and no socket
\* belongs to two registered sockets or twice to one.
RegistryInvariant ==
    /\ \A h \in DOMAIN g_sockets :
          /\ h >= 1
          /\ h < g_next_handle
          /\ g_sockets[h].socket # INVALID_SOCKET
          /\ Endpoints(h) \subseteq openSocks
          /\ Cardinality(Endpoints(h)) = 1 + Len(g_sockets[h].clients)
    /\ \A h1, h2 \in DOMAIN g_sockets :
          h1 # h2 => Endpoints(h1) \cap Endpoints(h2) = {}

\* two handles registered after one was closed, one of them a publisher
\* that has admitted the other's connection
TwoSocketsAndPeer ==
    /\ Cardinality(DOMAIN g_sockets) = 2
    /\ g_next_handle > 3
    /\ \E h \in DOMAIN g_sockets : g_sockets[h].clients # << >>

\* C25: a receive that fails on a subscriber (nothing to read in time, the
\* stream ended, or bytes without a separator) leaves the registry as it
\* was, the handle registered, every socket open that was open, and the
\* stream of every other socket untouched.
FailedReceiveKeepsSockets ==
    [][ (/\ call'.op = "zmq_recv_message"
         /\ call'.returned
         /\ call'.kind \in {"Timeout", "ConnectionClosed", "MalformedFrame"})
        => /\ call'.ret = -1
           /\ UNCHANGED registry
           /\ call'.handle \in DOMAIN g_sockets'
           /\ UNCHANGED << openSocks, listeners, pending, remote, rxEof >>
           /\ \A s \in DOMAIN rx \ {g_sockets[call'.handle].socket} :
                 s \in DOMAIN rx' /\ rx'[s] = rx[s] ]_vars

\* a receive that read bytes with no separator among them, its handle
\* still registered and its connection still in the publisher's peer list
MalformedFrameRead ==
    /\ call.op = "zmq_recv_message"
    /\ call.returned
    /\ call.kind = "MalformedFrame"
    /\ call.handle \in DOMAIN g_sockets
    /\ \E h \in DOMAIN g_sockets :
          \E i \in 1..Len(g_sockets[h].clients) :
             remote[g_sockets[h].clients[i]] = g_sockets[call.handle].socket

\* the bytes of a sequence of frames, one after the other
RECURSIVE FrameBytes(_)
FrameBytes(frames) ==
    IF frames = << >> THEN << >>
    ELSE Frame(frames[1].topic, frames[1].message) \o FrameBytes(Tail(frames))

\* C26: a receive made with two or more whole frames in the subscriber's
\* stream returns the first with exactly its own payload and leaves every
\* other frame in the stream, byte for byte, for the receives after it.
NoFrameDiscarded ==
    [][ (/\ call'.op = "zmq_recv_message"
         /\ call'.returned
         /\ Len(call'.frames) >= 2
         /\ \A i \in 1..Len(call'.frames) : call'.frames[i].whole)
        => /\ call'.ret = 0
           /\ call'.topic = call'.frames[1].topic
           /\ call'.message = call'.frames[1].message
           /\ wire'[ReceiverOf(call')] = Tail(call'.frames)
           /\ rx'[ReceiverOf(call')] = FrameBytes(Tail(call'.frames)) ]_vars

\* C27: a create call that returns -1 leaves the registry, the next-handle
\* counter and every socket as they were, so that the socket it had made is
\* closed again; a zmq_create_publisher that succeeds registers under the
\* handle it returns a publisher with an empty peer list, whose socket is
\* new, open and listening.
FailedCreateLeavesNothing ==
    [][ call'.op \in {"zmq_create_publisher", "zmq_create_subscriber"}
        => /\ call'.returned
           /\ IF call'.ret = -1
              THEN UNCHANGED << registry, transport >>
              ELSE /\ call'.ret = g_next_handle
                   /\ DOMAIN g_sockets' = DOMAIN g_sockets \cup {call'.ret}
                   /\ call'.op = "zmq_create_publisher"
                      => /\ g_sockets'[call'.ret].type = "PUB"
                         /\ g_sockets'[call'.ret].clients = << >>
                         /\ g_sockets'[call'.ret].socket \in openSocks' \ openSocks
                         /\ g_sockets'[call'.ret].socket \in DOMAIN listeners' ]_vars

\* a create that failed after it had made its socket, with a socket
\* registered before it
CreateFailedAfterSocket ==
    /\ IsCreate
    /\ call.ret = -1
    /\ call.sockets = 1
    /\ g_sockets # << >>

\* the texts a create call stores when it turns an address down
AddressErrors ==
    {ParseError("scheme"), ParseError("colon"), ParseError("port"),
     "Invalid IP address"}

\* C28: the two create calls take the same addresses: neither turns down
\* "tcp://localhost:5556" as an address, and the host "*" becomes the
\* any-address.
LocalhostAccepted ==
    /\ ParseAddress("tcp://*:5556").ok
    /\ ParseAddress("tcp://*:5556").host = "0.0.0.0"
    /\ (IsCreate /\ call.address = "tcp://localhost:5556" /\ call.ret = -1)
       => g_last_error \notin AddressErrors

\* C29: a receive on a registered publisher handle returns -1 and stores a
\* text in g_last_error; it does not wait for or read any socket, and the
\* registry, the listening socket, the peer list and every stream are as
\* they were.
ReceiveOnPublisherRejected ==
    [][ (/\ call'.op = "zmq_recv_message"
         /\ call'.handle \in DOMAIN g_sockets
         /\ g_sockets[call'.handle].type = "PUB")
        => /\ call'.returned
           /\ call'.ret = -1
           /\ call'.kind = "NotSubscriber"
           /\ g_last_error' # ""
           /\ g_last_error' = call'.error
           /\ UNCHANGED << registry, transport >> ]_vars

\* a receive made on a publisher that has a peer with bytes to read
ReceiveOnPublisherWithPeer ==
    /\ call.op = "zmq_recv_message"
    /\ call.returned
    /\ call.handle \in DOMAIN g_sockets
    /\ g_sockets[call.handle].type = "PUB"
    /\ \E c \in Range(g_sockets[call.handle].clients) :
          /\ remote[c] # INVALID_SOCKET
          /\ rx[remote[c]] # << >>

\* C30: a send on a registered subscriber handle is turned down: it returns
\* -1 and writes to no connection, the subscriber's among them.
SendOnSubscriberRejected ==
    [][ (/\ call'.op = "zmq_send_message"
         /\ call'.handle \in DOMAIN g_sockets
         /\ g_sockets[call'.handle].type = "SUB")
        => /\ call'.returned
           /\ call'.ret = -1
           /\ call'.writes = << >>
           /\ UNCHANGED << registry, transport >> ]_vars

\* thread t is inside a send or a receive on a registered handle
UsesSocket(t) ==
    /\ pc[t] = "inside"
    /\ req[t].op \in {"zmq_send_message", "zmq_recv_message"}
    /\ req[t].handle \in DOMAIN g_sockets

\* thread u is inside a call that deletes the socket of handle h
DestroysSocket(u, h) ==
    /\ pc[u] = "inside"
    /\ \/ req[u].op = "zmq_term"
       \/ req[u].op = "zmq_close" /\ req[u].handle = h

\* C31: no thread is inside zmq_close or zmq_term of a handle while another
\* thread is inside a send or a receive on that handle.
NoCloseDuringUse ==
    \A t, u \in Threads :
       (t # u /\ UsesSocket(t)) => ~DestroysSocket(u, req[t].handle)

\* C32: the library is started once for each period in which the state is
\* initialized: no two threads are past zmq_init's test of g_initialized at
\* the same time, and WSAStartup is never called with an earlier call of it
\* not yet undone by WSACleanup.
InitializedOnce ==
    /\ Cardinality(Starting) <= 1
    /\ wsaStarted <= 1
    /\ Starting # {} => wsaStarted = 0

\* C33: a send, a receive or a close made while the lock does not exist
\* (before the first initialization, or after zmq_term with no create since)
\* returns -1 without entering the lock, and leaves the registry and every
\* socket as they were.
NoLockWithoutInit ==
    [][ (/\ call'.op \in {"zmq_send_message", "zmq_recv_message", "zmq_close"}
         /\ ~LockExists)
        => /\ call'.returned
           /\ call'.ret = -1
           /\ ~hung'
           /\ UNCHANGED << registry, transport >> ]_vars

\* no socket is twice in the sequence q
NoDuplicate(q) == Cardinality(Range(q)) = Len(q)

\* C34: every socket the library opened is closed exactly once.  After each
\* call the open sockets are those of the registered sockets and no other;
\* the sockets a close, a terminate or a send closes were open until then,
\* none of them is closed twice by the call, and none is open after it.
ClosedExactlyOnce ==
    [][ /\ openSocks' = UNION {Close(g_sockets'[h]) : h \in DOMAIN g_sockets'}
        /\ (call'.op = "zmq_close" /\ call'.returned)
           => /\ NoDuplicate(call'.closeOrder)
              /\ Range(call'.closeOrder) \subseteq openSocks
              /\ Range(call'.closeOrder) \cap openSocks' = {}
        /\ call'.op = "zmq_term"
           => /\ call'.closed \subseteq openSocks
              /\ call'.closed \cap openSocks' = {}
              /\ call'.ran
                 => /\ openSocks' = {}
                    /\ \A h \in DOMAIN g_sockets :
                          NoDuplicate(CloseOrder(g_sockets[h]))
                    /\ \A h1, h2 \in DOMAIN g_sockets :
                          h1 # h2 => Close(g_sockets[h1]) \cap Close(g_sockets[h2]) = {}
        /\ (IsSend(call') /\ call'.handle \in DOMAIN g_sockets)
           => /\ NoDuplicate(WrittenTo(call'))
              /\ FailedWrites(call') \subseteq openSocks \cup Range(call'.accepted)
              /\ FailedWrites(call') \cap openSocks' = {} ]_vars

\* a close of a publisher that had admitted a peer, made while another
\* registered socket stays open
PublisherWithPeerClosed ==
    /\ call.op = "zmq_close"
    /\ call.returned
    /\ call.ret = 0
    /\ Len(call.closeOrder) >= 2
    /\ g_sockets # << >>
    /\ openSocks # {}

\* whether the call of record c succeeded: a create returns a handle, the
\* other calls return 0
Succeeded(c) ==
    IF c.op \in {"zmq_create_publisher", "zmq_create_subscriber"}
    THEN c.ret > 0 ELSE c.ret = 0

\* C35: the v2 library can take the place of the winsock library: a call
\* that returns in both, made after the same calls, succeeds in both or
\* fails in both.  zmq_term returns nothing, and the result of a receive on
\* a v2 subscriber is not kept, so these two are not compared.
SameReturnCodes ==
    (/\ call.op \notin {"none", "zmq_term"}
     /\ call.returned
     /\ v2call.returned
     /\ ~(/\ call.op = "zmq_recv_message"
          /\ call.handle \in DOMAIN sockets_
          /\ sockets_[call.handle] = "SUB"))
    => (Succeeded(call) <=> Succeeded(v2call))
====
